---- MODULE Spec2Model ----
(***************************************************************************)
(* Model of src/Dataclean_app3.py: a Streamlit script that loads an        *)
(* uploaded tabular file into a pandas DataFrame, shows an overview and    *)
(* offers four cleaning buttons, each producing a cleaned DataFrame and a  *)
(* CSV download.                                                           *)
(*                                                                         *)
(* Streamlit reruns the whole script on every interaction, so every        *)
(* action of the model is one run of the script from line 65 to line 197   *)
(* for the current upload and the button that was clicked (if any).        *)
(*                                                                         *)
(* The pandas calls are modelled by their behaviour in pandas 2.x, the     *)
(* release line the script was written against: dropna(), drop_duplicates()*)
(* (keep="first", NaN equal to NaN), Series.mode() (most frequent non-null *)
(* values, sorted), Series.fillna(value, inplace=True) and                 *)
(* Series.interpolate(inplace=True) (method="linear",                      *)
(* limit_direction="forward": leading NaN kept, interior NaN interpolated, *)
(* trailing NaN filled with the last valid value), both acting on the      *)
(* cached column of the frame.                                             *)
(***************************************************************************)
EXTENDS Integers, Sequences, FiniteSets, TLC

VARIABLES
    uploaded_file,  \* <<>> or <<[name, data]>>: the file held by st.file_uploader
    reader,         \* the pandas reader the last run called, "none" if none
    df,             \* <<>> or <<table>>: the script's df after the last run
    overview,       \* <<>> or <<[rows, columns, missing, duplicates]>>
    buttons,        \* the cleaning buttons the last run rendered
    clicked,        \* the button whose click triggered the last run, or "none"
    cleaned_df,     \* <<>> or <<table>>: the script's cleaned_df after the last run
    download,       \* <<>> or <<[file_name, data]>>: the st.download_button offered
    alerts,         \* the st.info / st.success / st.error boxes of the last run
    unhandled       \* an exception left the script's try block uncaught

vars == <<uploaded_file, reader, df, overview, buttons, clicked, cleaned_df,
          download, alerts, unhandled>>

----------------------------------------------------------------------------
(* Bounds of the model. *)

\* Largest number of rows of an uploaded table.
MaxRows == 3

----------------------------------------------------------------------------
(* Cells, columns and tables (pandas DataFrame). *)

\* A missing cell: NaN / None / NaT.
Null == [t |-> "null", n |-> 0, d |-> 1, s |-> ""]

\* A text cell of an object column.
Str(s) == [t |-> "str", n |-> 0, d |-> 1, s |-> s]

\* A numeric cell: the rational n/d in lowest terms, d > 0.
Num(n, d) == [t |-> "num", n |-> n, d |-> d, s |-> ""]

\* A timestamp cell of a datetime64 column.
Date(s) == [t |-> "date", n |-> 0, d |-> 1, s |-> s]

IsNull(c) == c.t = "null"

\* The text values of the uploaded tables, in sort order.
StrValues == <<"a", "b">>

\* The column lists (name, dtype) of the uploaded tables.
Schemas ==
    { <<[name |-> "u", dtype |-> "object"], [name |-> "y", dtype |-> "float64"]>>,
      <<[name |-> "v", dtype |-> "float64"]>>,
      <<[name |-> "x", dtype |-> "object"]>>,
      <<[name |-> "w", dtype |-> "datetime64"]>> }

\* The non-null cells an uploaded column may hold.
ValuesOf(c) ==
    CASE c.name = "u" -> {Str("a")}
      [] c.name = "x" -> {Str(StrValues[i]) : i \in 1..Len(StrValues)}
      [] c.name = "y" -> {Num(1, 1), Num(2, 1)}
      [] c.name = "v" -> {Num(1, 1), Num(2, 1), Num(4, 1)}
      [] c.name = "w" -> {Date("d1")}

RowsOf(schema) ==
    { r \in [1..Len(schema) -> UNION {ValuesOf(schema[k]) : k \in 1..Len(schema)} \cup {Null}] :
        \A k \in 1..Len(schema) : r[k] \in ValuesOf(schema[k]) \cup {Null} }

\* The tables a reader may return.
Tables ==
    UNION { { [columns |-> schema, rows |-> rs] : rs \in [1..n -> RowsOf(schema)] } :
            schema \in Schemas, n \in 0..MaxRows }

NRows(t) == Len(t.rows)
NCols(t) == Len(t.columns)

\* The cells of column k, top to bottom.
Column(t, k) == [i \in 1..NRows(t) |-> t.rows[i][k]]

\* t with column k replaced by the cells col.
SetColumn(t, k, col) ==
    [t EXCEPT !.rows = [i \in 1..NRows(t) |-> [t.rows[i] EXCEPT ![k] = col[i]]]]

HasNull(row) == \E k \in 1..Len(row) : IsNull(row[k])

----------------------------------------------------------------------------
(* File names and the dispatch on the extension. *)

Lower(ch) ==
    CASE ch = "C" -> "c" [] ch = "D" -> "d" [] ch = "S" -> "s" [] ch = "V" -> "v"
      [] ch = "T" -> "t" [] ch = "X" -> "x" [] ch = "L" -> "l" [] ch = "J" -> "j"
      [] ch = "O" -> "o" [] ch = "N" -> "n" [] ch = "M" -> "m" [] ch = "H" -> "h"
      [] OTHER -> ch

\* str.lower()
LowerName(name) == [i \in 1..Len(name) |-> Lower(name[i])]

\* str.endswith(suffix)
EndsWith(name, suffix) ==
    /\ Len(suffix) <= Len(name)
    /\ \A i \in 1..Len(suffix) : name[Len(name) - Len(suffix) + i] = suffix[i]

\* The names of the uploaded files, as sequences of characters.
FileNames ==
    { <<"d", ".", "c", "s", "v">>,
      <<"D", ".", "T", "X", "T">>,
      <<"d", ".", "x", "l", "s", "x">>,
      <<"d", ".", "x", "l", "s">>,
      <<"d", ".", "J", "s", "o", "n">>,
      <<"d", ".", "x", "m", "l">>,
      <<"d", ".", "h", "t", "m", "l">>,
      <<"c", "s", "v">> }

\* ReaderFor with the final else branch reading the file as delimited text.
ReaderForDefaultCsv(file_name) ==
    IF EndsWith(file_name, <<".", "x", "l", "s", "x">>)
       \/ EndsWith(file_name, <<".", "x", "l", "s">>) THEN "read_excel"
    ELSE IF EndsWith(file_name, <<".", "j", "s", "o", "n">>) THEN "read_json"
    ELSE IF EndsWith(file_name, <<".", "x", "m", "l">>) THEN "read_xml"
    ELSE "read_csv"

\* Lines 70-95: the reader chosen for the lower-cased file name.
ReaderFor(file_name) ==
    IF EndsWith(file_name, <<".", "c", "s", "v">>)
       \/ EndsWith(file_name, <<".", "t", "x", "t">>) THEN "read_csv"
    ELSE IF EndsWith(file_name, <<".", "x", "l", "s", "x">>)
            \/ EndsWith(file_name, <<".", "x", "l", "s">>) THEN "read_excel"
    ELSE IF EndsWith(file_name, <<".", "j", "s", "o", "n">>) THEN "read_json"
    ELSE IF EndsWith(file_name, <<".", "x", "m", "l">>) THEN "read_xml"
    ELSE "none"

\* The contents of the uploaded files, by what the reader makes of them: a
\* table, or a failure (pandas.errors.ParserError, ValueError, ...).
FileData == { [parsed |-> <<t>>] : t \in Tables } \cup { [parsed |-> <<>>] }

\* Lines 78 and 90: read_csv and read_xml are called without parse_dates and
\* return no datetime64 column; read_excel and read_json may.
MayReturn(r, data) ==
    r \in {"read_csv", "read_xml"} =>
        \A t \in {data.parsed[i] : i \in 1..Len(data.parsed)} :
            \A k \in 1..NCols(t) : t.columns[k].dtype # "datetime64"

----------------------------------------------------------------------------
(* Rational arithmetic for the float cells. *)

Abs(x) == IF x < 0 THEN -x ELSE x

RECURSIVE Gcd(_, _)
Gcd(a, b) == IF b = 0 THEN a ELSE Gcd(b, a % b)

\* n/d in lowest terms with a positive denominator.
Rat(n, d) ==
    LET g == Gcd(Abs(n), Abs(d))
        sgn == IF d < 0 THEN -1 ELSE 1
    IN Num(sgn * (n \div g), sgn * (d \div g))

RSub(a, b) == Rat(a.n * b.d - b.n * a.d, a.d * b.d)
RAdd(a, b) == Rat(a.n * b.d + b.n * a.d, a.d * b.d)
RScale(a, k) == Rat(a.n * k, a.d)
RDivInt(a, k) == Rat(a.n, a.d * k)

----------------------------------------------------------------------------
(* The pandas calls of the cleaning options. *)

RECURSIVE DropNaRows(_)
DropNaRows(rows) ==
    IF rows = <<>> THEN <<>>
    ELSE IF HasNull(Head(rows)) THEN DropNaRows(Tail(rows))
    ELSE <<Head(rows)>> \o DropNaRows(Tail(rows))

\* dropna(how="all"): only the rows whose cells are all missing are dropped.
DropNaHowAll(t) ==
    LET AllNull(row) == \A k \in 1..Len(row) : IsNull(row[k])
        Keep(row) == ~AllNull(row)
    IN [t EXCEPT !.rows = SelectSeq(t.rows, Keep)]

\* dropna(axis=1): the columns that hold a missing cell are dropped.
DropNaColumns(t) ==
    LET full == {k \in 1..NCols(t) : \A i \in 1..NRows(t) : ~IsNull(t.rows[i][k])}
        idx == [k \in 1..NCols(t) |-> k]
        IsFull(k) == k \in full
        kept == SelectSeq(idx, IsFull)
    IN [columns |-> [j \in 1..Len(kept) |-> t.columns[kept[j]]],
        rows |-> [i \in 1..NRows(t) |-> [j \in 1..Len(kept) |-> t.rows[i][kept[j]]]]]

\* DataFrame.dropna() (axis=0, how="any"): a new frame without the rows
\* that hold a missing cell.
DropNa(t) == [t EXCEPT !.rows = DropNaRows(t.rows)]

RECURSIVE DedupRows(_, _)
DedupRows(rows, seen) ==
    IF rows = <<>> THEN <<>>
    ELSE IF Head(rows) \in seen THEN DedupRows(Tail(rows), seen)
    ELSE <<Head(rows)>> \o DedupRows(Tail(rows), seen \cup {Head(rows)})

\* drop_duplicates(keep="last"): the last occurrence of each row is kept.
DropDuplicatesKeepLast(t) ==
    LET n == NRows(t)
        idx == [i \in 1..n |-> i]
        IsLast(i) == \A j \in (i + 1)..n : t.rows[j] # t.rows[i]
        kept == SelectSeq(idx, IsLast)
    IN [t EXCEPT !.rows = [j \in 1..Len(kept) |-> t.rows[kept[j]]]]

\* A loop that deletes a duplicate while iterating, and so never examines
\* the row after a deleted one.
RECURSIVE DedupRowsSkipNext(_, _)
DedupRowsSkipNext(rows, seen) ==
    IF rows = <<>> THEN <<>>
    ELSE IF Head(rows) \notin seen
         THEN <<Head(rows)>> \o DedupRowsSkipNext(Tail(rows), seen \cup {Head(rows)})
    ELSE IF Tail(rows) = <<>> THEN <<>>
    ELSE <<Head(Tail(rows))>>
         \o DedupRowsSkipNext(Tail(Tail(rows)), seen \cup {Head(Tail(rows))})

DropDuplicatesSkipNext(t) == [t EXCEPT !.rows = DedupRowsSkipNext(t.rows, {})]

\* DataFrame.drop_duplicates() (keep="first"): a row equal in every column
\* to an earlier row is dropped; missing cells compare equal.
DropDuplicates(t) == [t EXCEPT !.rows = DedupRows(t.rows, {})]

\* Series.mode() (dropna=True): the most frequent non-null values, sorted;
\* empty when every cell is missing.
Mode(col) ==
    LET n == Len(col)
        vals == {col[i] : i \in {j \in 1..n : ~IsNull(col[j])}}
        Count(v) == Cardinality({i \in 1..n : col[i] = v})
        best == {v \in vals : \A w \in vals : Count(w) <= Count(v)}
        sorted == [i \in 1..Len(StrValues) |-> Str(StrValues[i])]
        IsBest(v) == v \in best
    IN SelectSeq(sorted, IsBest)

\* Series.fillna(value): every missing cell becomes value.
FillNa(col, value) == [i \in 1..Len(col) |-> IF IsNull(col[i]) THEN value ELSE col[i]]

\* interpolate(method="pad"): a missing cell takes the last valid value
\* before it.
InterpolatePad(col) ==
    LET n == Len(col)
        Before(i) == {j \in 1..n : j < i /\ ~IsNull(col[j])}
        Max(S) == CHOOSE x \in S : \A y \in S : y <= x
    IN [i \in 1..n |->
          IF ~IsNull(col[i]) \/ Before(i) = {} THEN col[i] ELSE col[Max(Before(i))]]

\* Series.interpolate() (method="linear", limit_direction="forward"): a
\* missing cell after the first valid one is interpolated between its
\* nearest valid neighbours by position (numpy.interp: slope * (x - x0) + y0,
\* clamped to the last valid value on the right); the cells before the
\* first valid one stay missing.
Interpolate(col) ==
    LET n == Len(col)
        valid == {j \in 1..n : ~IsNull(col[j])}
        Before(i) == {j \in valid : j < i}
        After(i) == {j \in valid : j > i}
        Max(S) == CHOOSE x \in S : \A y \in S : y <= x
        Min(S) == CHOOSE x \in S : \A y \in S : x <= y
        At(i) ==
            IF i \in valid THEN col[i]
            ELSE IF Before(i) = {} THEN Null
            ELSE IF After(i) = {} THEN col[Max(Before(i))]
            ELSE LET p == Max(Before(i))
                     q == Min(After(i))
                     slope == RDivInt(RSub(col[q], col[p]), q - p)
                 IN RAdd(RScale(slope, i - p), col[p])
    IN [i \in 1..n |-> At(i)]

\* DataFrame.select_dtypes(include=["object"]) / (include=["number"]).
IsObject(c) == c.dtype = "object"
IsNumber(c) == c.dtype \in {"float64", "int64"}

\* DataFrame.to_csv(index=False): a header line of the column names, then
\* one line per row; a missing cell is written as an empty field.
ToCsv(t) ==
    LET header == [k \in 1..NCols(t) |-> Str(t.columns[k].name)]
        Field(c) == IF IsNull(c) THEN Str("") ELSE c
        Line(row) == [k \in 1..Len(row) |-> Field(row[k])]
    IN <<header>> \o [i \in 1..NRows(t) |-> Line(t.rows[i])]

----------------------------------------------------------------------------
(* The four cleaning options. Each gives the script's df and cleaned_df    *)
(* after its statements, and the exception they raised ("none" if none).   *)

\* Lines 131: cleaned_df = df.dropna()
RemoveMissingValues(d) ==
    [df |-> d, cleaned_df |-> DropNa(d), raised |-> "none"]

\* Lines 146-147 and 178-179: the loop over the object columns from column k
\* on; mode()[0] raises KeyError when the column has no non-null cell.
RECURSIVE FillObjectColumns(_, _)
FillObjectColumns(c, k) ==
    IF k > NCols(c) THEN [frame |-> c, raised |-> "none"]
    ELSE IF ~IsObject(c.columns[k]) THEN FillObjectColumns(c, k + 1)
    ELSE LET m == Mode(Column(c, k))
         IN IF m = <<>> THEN [frame |-> c, raised |-> "KeyError"]
            ELSE FillObjectColumns(SetColumn(c, k, FillNa(Column(c, k), m[1])), k + 1)

\* Lines 148-149 and 180-181: the loop over the numeric columns from column k on.
RECURSIVE InterpolateNumberColumns(_, _)
InterpolateNumberColumns(c, k) ==
    IF k > NCols(c) THEN c
    ELSE IF ~IsNumber(c.columns[k]) THEN InterpolateNumberColumns(c, k + 1)
    ELSE InterpolateNumberColumns(SetColumn(c, k, Interpolate(Column(c, k))), k + 1)

\* cleaned_df = df without the copy: the loops then fill df itself.
HandleMissingValuesNoCopy(d) ==
    LET filled == FillObjectColumns(d, 1)
    IN IF filled.raised # "none"
       THEN [df |-> filled.frame, cleaned_df |-> filled.frame, raised |-> filled.raised]
       ELSE LET c == InterpolateNumberColumns(filled.frame, 1)
            IN [df |-> c, cleaned_df |-> c, raised |-> "none"]

\* Lines 145-149: cleaned_df = df.copy(), then the two loops on cleaned_df.
HandleMissingValues(d) ==
    LET filled == FillObjectColumns(d, 1)
    IN IF filled.raised # "none"
       THEN [df |-> d, cleaned_df |-> filled.frame, raised |-> filled.raised]
       ELSE [df |-> d, cleaned_df |-> InterpolateNumberColumns(filled.frame, 1),
             raised |-> "none"]

\* Line 163: cleaned_df = df.drop_duplicates()
RemoveDuplicateRecords(d) ==
    [df |-> d, cleaned_df |-> DropDuplicates(d), raised |-> "none"]

\* The duplicates dropped before the two loops instead of after them.
DropDuplicatesThenHandle(d) ==
    LET filled == FillObjectColumns(DropDuplicates(d), 1)
    IN IF filled.raised # "none"
       THEN [df |-> d, cleaned_df |-> filled.frame, raised |-> filled.raised]
       ELSE [df |-> d, cleaned_df |-> InterpolateNumberColumns(filled.frame, 1),
             raised |-> "none"]

\* Lines 177-182: cleaned_df = df.copy(), the two loops, then
\* cleaned_df.drop_duplicates(inplace=True).
HandleMissingRemoveDuplicates(d) ==
    LET filled == FillObjectColumns(d, 1)
    IN IF filled.raised # "none"
       THEN [df |-> d, cleaned_df |-> filled.frame, raised |-> filled.raised]
       ELSE [df |-> d,
             cleaned_df |-> DropDuplicates(InterpolateNumberColumns(filled.frame, 1)),
             raised |-> "none"]

----------------------------------------------------------------------------
(* One run of the script. *)

\* Lines 130, 144, 162, 176: the four buttons, in the order the script
\* renders them.
ButtonOrder ==
    <<"remove_missing", "handle_missing", "remove_duplicates", "handle_both">>

Buttons == {ButtonOrder[i] : i \in 1..Len(ButtonOrder)}

ButtonIndex(b) == CHOOSE i \in 1..Len(ButtonOrder) : ButtonOrder[i] = b

\* Lines 136, 154, 168, 187: the file name of each download.
DownloadName(b) ==
    CASE b = "remove_missing" -> "cleaned_no_missing.csv"
      [] b = "handle_missing" -> "cleaned_handled_missing.csv"
      [] b = "remove_duplicates" -> "cleaned_no_duplicates.csv"
      [] b = "handle_both" -> "cleaned_handled_no_duplicates.csv"

\* Lines 128-191: the statements under the button that was clicked.
CleaningOption(b, d) ==
    CASE b = "remove_missing" -> RemoveMissingValues(d)
      [] b = "handle_missing" -> HandleMissingValues(d)
      [] b = "remove_duplicates" -> RemoveDuplicateRecords(d)
      [] b = "handle_both" -> HandleMissingRemoveDuplicates(d)

\* A handler for the readers' errors only (except pd.errors.ParserError).
CatchesParserErrorOnly(exc) == exc = "ParserError"

\* Line 193: `except Exception` catches KeyError and the readers' errors;
\* Streamlit's StopException derives from BaseException and passes through.
Catches(exc) == exc \in {"KeyError", "ParserError"}

\* Lines 99-121: the figures of the dataset overview.
Overview(d) ==
    [rows |-> NRows(d),
     columns |-> NCols(d),
     missing |-> Cardinality({<<i, k>> \in (1..NRows(d)) \X (1..NCols(d)) :
                                  IsNull(d.rows[i][k])}),
     duplicates |-> NRows(d) - NRows(DropDuplicates(d))]

UploadSuccess == [kind |-> "success", text |-> "File uploaded successfully"]
CleanSuccess(b) == [kind |-> "success", text |-> b]
UnsupportedError == [kind |-> "error", text |-> "Unsupported file format"]
ReadingError(exc) == [kind |-> "error", text |-> exc]
PleaseUpload == [kind |-> "info", text |-> "Please upload a dataset"]

\* Lines 193-194: what becomes of a run that raised exc, having called the
\* reader r, bound df to d, rendered the overview o and the buttons bs and
\* shown the alerts as.
Raised(exc, r, d, o, bs, c, as) ==
    [reader |-> r, df |-> d, overview |-> o, buttons |-> bs, cleaned_df |-> c,
     download |-> <<>>,
     alerts |-> IF Catches(exc) THEN Append(as, ReadingError(exc)) ELSE as,
     unhandled |-> ~Catches(exc) /\ exc # "StopException"]

\* Lines 65-197 for an uploaded file and the button b that was clicked
\* ("none": the run follows an upload or another widget).
RunScript(file, b) ==
    LET file_name == LowerName(file.name)
        r == ReaderFor(file_name)
    IN IF r = "none"
       THEN \* lines 93-95: st.error, st.stop()
            Raised("StopException", "none", <<>>, <<>>, {}, <<>>, <<UnsupportedError>>)
       ELSE IF file.data.parsed = <<>>
       THEN \* lines 71-90: the reader raises
            Raised("ParserError", r, <<>>, <<>>, {}, <<>>, <<>>)
       ELSE LET d == file.data.parsed[1]
                o == <<Overview(d)>>
            IN IF b = "none"
               THEN [reader |-> r, df |-> <<d>>, overview |-> o, buttons |-> Buttons,
                     cleaned_df |-> <<>>, download |-> <<>>,
                     alerts |-> <<UploadSuccess>>, unhandled |-> FALSE]
               ELSE LET res == CleaningOption(b, d)
                    IN IF res.raised # "none"
                       THEN Raised(res.raised, r, <<res.df>>, o,
                                   {ButtonOrder[i] : i \in 1..ButtonIndex(b)},
                                   <<res.cleaned_df>>, <<UploadSuccess>>)
                       ELSE [reader |-> r, df |-> <<res.df>>, overview |-> o,
                             buttons |-> Buttons,
                             cleaned_df |-> <<res.cleaned_df>>,
                             download |-> <<[file_name |-> DownloadName(b),
                                             data |-> ToCsv(res.cleaned_df)]>>,
                             alerts |-> <<UploadSuccess, CleanSuccess(b)>>,
                             unhandled |-> FALSE]

\* The page after a run.
Show(page, b) ==
    /\ reader' = page.reader
    /\ df' = page.df
    /\ overview' = page.overview
    /\ buttons' = page.buttons
    /\ clicked' = b
    /\ cleaned_df' = page.cleaned_df
    /\ download' = page.download
    /\ alerts' = page.alerts
    /\ unhandled' = page.unhandled

----------------------------------------------------------------------------
(* The session. *)

\* Lines 196-197: no file in the uploader.
Init ==
    /\ uploaded_file = <<>>
    /\ reader = "none"
    /\ df = <<>>
    /\ overview = <<>>
    /\ buttons = {}
    /\ clicked = "none"
    /\ cleaned_df = <<>>
    /\ download = <<>>
    /\ alerts = <<PleaseUpload>>
    /\ unhandled = FALSE

\* Lines 60-63: the user puts a file into the empty uploader; the script
\* runs. (The uploader holds one file: the front end replaces a file by
\* removing it and uploading the new one.)
Upload ==
    /\ uploaded_file = <<>>
    /\ \E name \in FileNames, data \in FileData :
           /\ MayReturn(ReaderFor(LowerName(name)), data)
           /\ uploaded_file' = <<[name |-> name, data |-> data]>>
           /\ Show(RunScript([name |-> name, data |-> data], "none"), "none")

\* The user clicks one of the rendered cleaning buttons; the script runs
\* with that button set.
Click ==
    \E b \in buttons :
        /\ uploaded_file # <<>>
        /\ UNCHANGED uploaded_file
        /\ Show(RunScript(uploaded_file[1], b), b)

\* Lines 133, 151, 165, 184: the user clicks the download button; the
\* browser saves the payload and the script runs with no button set.
ClickDownload ==
    /\ uploaded_file # <<>>
    /\ download # <<>>
    /\ UNCHANGED uploaded_file
    /\ Show(RunScript(uploaded_file[1], "none"), "none")

\* The user removes the file from the uploader; the script runs its else
\* branch (lines 196-197).
RemoveFile ==
    /\ uploaded_file # <<>>
    /\ uploaded_file' = <<>>
    /\ Show([reader |-> "none", df |-> <<>>, overview |-> <<>>, buttons |-> {},
             cleaned_df |-> <<>>, download |-> <<>>, alerts |-> <<PleaseUpload>>,
             unhandled |-> FALSE], "none")

Next == Upload \/ Click \/ ClickDownload \/ RemoveFile

Spec == Init /\ [][Next]_vars

----------------------------------------------------------------------------
(* Properties. *)

\* The table the reader made of the uploaded file.
Loaded == uploaded_file[1].data.parsed[1]

\* The last run was a click on button b whose statements ran to the end.
Cleaned(b) == uploaded_file # <<>> /\ clicked = b /\ download # <<>>

NoNullIn(row) == \A k \in 1..Len(row) : row[k].t # "null"

\* The rows of t at the positions in K, in the order of t: the j-th row of
\* out is the row of t at the j-th smallest position of K.
IsSelection(out, t, K) ==
    /\ Len(out) = Cardinality(K)
    /\ \A i \in K : out[Cardinality({j \in K : j <= i})] = t.rows[i]

\* C1: after Handle Missing Values, no column that had a non-null cell in
\* the loaded table holds a null cell.
C1_HandleMissingLeavesNoNull ==
    Cleaned("handle_missing") =>
        \A k \in 1..NCols(Loaded) :
            (\E i \in 1..NRows(Loaded) : ~IsNull(Loaded.rows[i][k]))
            => \A i \in 1..NRows(cleaned_df[1]) : ~IsNull(cleaned_df[1].rows[i][k])

\* C2: after Remove Missing Values, the cleaned table has no row with a null
\* cell, and its rows are exactly the rows of the loaded table without a
\* null cell, unchanged and in the same order.
C2_RemoveMissingKeepsCompleteRows ==
    Cleaned("remove_missing") =>
        /\ \A i \in 1..NRows(cleaned_df[1]) : NoNullIn(cleaned_df[1].rows[i])
        /\ IsSelection(cleaned_df[1].rows, Loaded,
                       {i \in 1..NRows(Loaded) : NoNullIn(Loaded.rows[i])})

\* Remove Missing Values dropped a row and kept two.
C2_Witness ==
    /\ Cleaned("remove_missing")
    /\ NCols(Loaded) = 2
    /\ NRows(cleaned_df[1]) >= 2
    /\ NRows(cleaned_df[1]) < NRows(Loaded)

\* C3: after Remove Duplicate Records, no two rows of the cleaned table are
\* equal (null equal to null), its rows are the first occurrences of the
\* distinct rows of the loaded table in the loaded order, and it has no
\* more rows than the loaded table.
C3_RemoveDuplicatesKeepsFirst ==
    Cleaned("remove_duplicates") =>
        /\ \A i, j \in 1..NRows(cleaned_df[1]) :
               cleaned_df[1].rows[i] = cleaned_df[1].rows[j] => i = j
        /\ IsSelection(cleaned_df[1].rows, Loaded,
                       {i \in 1..NRows(Loaded) :
                           \A j \in 1..(i - 1) : Loaded.rows[j] # Loaded.rows[i]})
        /\ NRows(cleaned_df[1]) <= NRows(Loaded)

\* Remove Duplicate Records dropped the repetition of a row with a null
\* cell that is followed by a different row.
C3_Witness ==
    /\ Cleaned("remove_duplicates")
    /\ NRows(cleaned_df[1]) >= 2
    /\ \E i, j \in 1..NRows(Loaded) :
          /\ i < j
          /\ j < NRows(Loaded)
          /\ Loaded.rows[i] = Loaded.rows[j]
          /\ ~NoNullIn(Loaded.rows[i])
          /\ Loaded.rows[j + 1] # Loaded.rows[j]

\* C4: the loaded table is never changed by a cleaning option: after every
\* run df is the table the reader made of the uploaded file, and the
\* cleaned table is the one the clicked option computes from that table.
C4_LoadedTableNeverMutated ==
    /\ (uploaded_file # <<>> /\ df # <<>>) => df = <<Loaded>>
    /\ \A b \in Buttons :
          Cleaned(b) => cleaned_df = <<CleaningOption(b, Loaded).cleaned_df>>

\* Handle Missing Values filled a cell: cleaned_df differs from df.
C4_Witness ==
    /\ Cleaned("handle_missing")
    /\ cleaned_df # df
    /\ df = <<Loaded>>

\* C5: the cleaned table of each of the four options has the column names
\* of the loaded table in the same order, every row has one cell per
\* column, and the exported header is that list of names.
C5_ColumnsPreserved ==
    \A b \in Buttons :
        Cleaned(b) =>
            /\ NCols(cleaned_df[1]) = NCols(Loaded)
            /\ \A k \in 1..NCols(Loaded) :
                   cleaned_df[1].columns[k].name = Loaded.columns[k].name
            /\ \A i \in 1..NRows(cleaned_df[1]) :
                   Len(cleaned_df[1].rows[i]) = NCols(Loaded)
            /\ download[1].data[1] = [k \in 1..NCols(Loaded) |-> Str(Loaded.columns[k].name)]

\* Remove Missing Values dropped a row of a two-column table.
C5_Witness ==
    /\ Cleaned("remove_missing")
    /\ NCols(Loaded) = 2
    /\ NRows(cleaned_df[1]) < NRows(Loaded)
    /\ NRows(cleaned_df[1]) >= 1

\* The lower-cased name of the uploaded file ends in one of the six
\* extensions.
SupportedName ==
    \E suffix \in { <<".", "c", "s", "v">>, <<".", "t", "x", "t">>,
                    <<".", "x", "l", "s", "x">>, <<".", "x", "l", "s">>,
                    <<".", "j", "s", "o", "n">>, <<".", "x", "m", "l">> } :
        EndsWith(LowerName(uploaded_file[1].name), suffix)

\* The reader fails on the uploaded file.
ParseFails ==
    uploaded_file # <<>> /\ SupportedName /\ uploaded_file[1].data.parsed = <<>>

\* The clicked option asks for the mode of a text column without a
\* non-null cell.
CleaningFails ==
    /\ uploaded_file # <<>>
    /\ clicked \in {"handle_missing", "handle_both"}
    /\ \E k \in 1..NCols(Loaded) :
          /\ Loaded.columns[k].dtype = "object"
          /\ \A i \in 1..NRows(Loaded) : IsNull(Loaded.rows[i][k])

\* C6: a failure of the reader or of a cleaning option is caught and shown
\* as an error box; no download is offered, and the session goes on: the
\* file can be removed (and another uploaded), and after a failed option
\* the rendered buttons can be clicked.
C6_FailuresCaughtAndReported ==
    (ParseFails \/ CleaningFails) =>
        /\ ~unhandled
        /\ alerts # <<>> /\ alerts[Len(alerts)].kind = "error"
        /\ download = <<>>
        /\ ENABLED RemoveFile
        /\ CleaningFails => (clicked \in buttons /\ ENABLED Click)

\* Handle Missing Values failed on a text column whose cells are all null,
\* in a table with rows.
C6_Witness ==
    /\ CleaningFails
    /\ clicked = "handle_missing"
    /\ NRows(Loaded) >= 2
    /\ alerts[Len(alerts)] = ReadingError("KeyError")

\* C7: a file whose lower-cased name ends in none of the six extensions is
\* answered with the unsupported-format error whatever it holds: no reader
\* is called, no table, overview, button, cleaned table or download exists.
C7_UnsupportedExtensionRejected ==
    (uploaded_file # <<>> /\ ~SupportedName) =>
        /\ alerts = <<UnsupportedError>>
        /\ reader = "none"
        /\ df = <<>>
        /\ overview = <<>>
        /\ buttons = {}
        /\ cleaned_df = <<>>
        /\ download = <<>>
        /\ ~ENABLED Click

\* A file with an unsupported name that holds a well-formed table.
C7_Witness ==
    /\ uploaded_file # <<>>
    /\ ~SupportedName
    /\ uploaded_file[1].data.parsed # <<>>
    /\ NRows(Loaded) >= 1
    /\ alerts = <<UnsupportedError>>

\* C8: Handle Missing + Remove Duplicates yields the duplicates-free form of
\* what Handle Missing Values yields for the same table, and fails exactly
\* when Handle Missing Values fails.
C8_HandleBothIsHandleThenDeduplicate ==
    (uploaded_file # <<>> /\ clicked = "handle_both") =>
        LET handled == HandleMissingValues(Loaded)
        IN IF handled.raised # "none"
           THEN download = <<>>
           ELSE /\ download # <<>>
                /\ cleaned_df = <<RemoveDuplicateRecords(handled.cleaned_df).cleaned_df>>

\* Two rows of the loaded table differ and are equal once filled: the
\* result has fewer rows than the loaded table without its duplicates.
C8_Witness ==
    /\ Cleaned("handle_both")
    /\ NRows(cleaned_df[1]) >= 2
    /\ NRows(cleaned_df[1]) < NRows(DropDuplicates(Loaded))

\* The numeric columns of the loaded table.
NumericColumns == {k \in 1..NCols(Loaded) : Loaded.columns[k].dtype \in {"float64", "int64"}}

\* The rows above / below row i where column k of the loaded table is not null.
ValidAbove(i, k) == {j \in 1..(i - 1) : ~IsNull(Loaded.rows[j][k])}
ValidBelow(i, k) == {j \in (i + 1)..NRows(Loaded) : ~IsNull(Loaded.rows[j][k])}

Nearest(S, i) == CHOOSE j \in S : \A h \in S : Abs(h - i) >= Abs(j - i)

\* The cell c is the value at row i on the straight line through the cells
\* vp at row p and vq at row q: c * (q - p) = vp * (q - i) + vq * (i - p).
OnLine(c, i, p, vp, q, vq) ==
    /\ c.t = "num"
    /\ c.n * (q - p) * vp.d * vq.d
         = c.d * (vp.n * vq.d * (q - i) + vq.n * vp.d * (i - p))

\* After Handle Missing Values, a null cell of a numeric column with a
\* non-null cell above and below holds the linear interpolation of the
\* nearest ones.
InteriorInterpolated ==
    \A k \in NumericColumns, i \in 1..NRows(Loaded) :
        (IsNull(Loaded.rows[i][k]) /\ ValidAbove(i, k) # {} /\ ValidBelow(i, k) # {}) =>
            LET p == Nearest(ValidAbove(i, k), i)
                q == Nearest(ValidBelow(i, k), i)
            IN OnLine(cleaned_df[1].rows[i][k], i, p, Loaded.rows[p][k], q, Loaded.rows[q][k])

\* After Handle Missing Values, a null cell of a numeric column with no
\* non-null cell above it is still null.
LeadingStaysNull ==
    \A k \in NumericColumns, i \in 1..NRows(Loaded) :
        (IsNull(Loaded.rows[i][k]) /\ ValidAbove(i, k) = {}) =>
            IsNull(cleaned_df[1].rows[i][k])

\* C9 (as claimed): interior nulls of a numeric column are interpolated,
\* leading nulls and trailing nulls stay null.
C9_TrailingStaysNull ==
    Cleaned("handle_missing") =>
        /\ InteriorInterpolated
        /\ LeadingStaysNull
        /\ \A k \in NumericColumns, i \in 1..NRows(Loaded) :
              (IsNull(Loaded.rows[i][k]) /\ ValidBelow(i, k) = {}) =>
                  IsNull(cleaned_df[1].rows[i][k])

\* C9 (amended): interior nulls of a numeric column are interpolated,
\* leading nulls stay null, and a trailing null that has a non-null cell
\* above it takes the value of the last non-null cell of the column.
C9_InterpolateForward ==
    Cleaned("handle_missing") =>
        /\ InteriorInterpolated
        /\ LeadingStaysNull
        /\ \A k \in NumericColumns, i \in 1..NRows(Loaded) :
              (IsNull(Loaded.rows[i][k]) /\ ValidAbove(i, k) # {} /\ ValidBelow(i, k) = {}) =>
                  cleaned_df[1].rows[i][k] = Loaded.rows[Nearest(ValidAbove(i, k), i)][k]

\* Handle Missing Values on a numeric column 1, null, 4: the null cell
\* becomes 5/2.
C9_Witness ==
    /\ Cleaned("handle_missing")
    /\ \E k \in NumericColumns :
          /\ NRows(Loaded) = 3
          /\ Loaded.rows[1][k] = Num(1, 1)
          /\ IsNull(Loaded.rows[2][k])
          /\ Loaded.rows[3][k] = Num(4, 1)
          /\ cleaned_df[1].rows[2][k] = Num(5, 2)

\* C10: Remove Missing Values and Remove Duplicate Records are idempotent:
\* applied to its own result, each returns that result.
C10_Idempotent ==
    /\ Cleaned("remove_missing") =>
           RemoveMissingValues(cleaned_df[1]).cleaned_df = cleaned_df[1]
    /\ Cleaned("remove_duplicates") =>
           RemoveDuplicateRecords(cleaned_df[1]).cleaned_df = cleaned_df[1]

\* Remove Duplicate Records dropped two repetitions of a row.
C10_Witness ==
    /\ Cleaned("remove_duplicates")
    /\ NRows(cleaned_df[1]) + 2 <= NRows(Loaded)
    /\ NRows(cleaned_df[1]) >= 1

====
